---- MODULE Spec2Model ----
(***************************************************************************)
(* Model of jeopardy.py: hybrid retrieval (BM25 + dense), candidate        *)
(* fusion, 8-field feature extraction with a cross-encoder score merged in *)
(* by a second pass, a logistic-regression ranker that is loaded or        *)
(* retrained, and the Precision@1 / MRR evaluation.                        *)
(*                                                                         *)
(* Strings are sequences of one-character strings, so that lower() and     *)
(* split() are computed and not assumed.  Floats are exact rationals       *)
(* <<numerator, denominator>>.                                             *)
(***************************************************************************)
EXTENDS Integers, Sequences, FiniteSets, TLC

VARIABLES
    queries,     \* the (category, clue, expected answer) triples
    RANKER_FILE, \* the persisted ranker: "absent" or the pickled object
    tie_order,   \* how the unstable argsort arranges equal scores
    pc,          \* position of the run
    need_train, ranker,
    qi,          \* index of the next query of the running loop
    bm_scores, idxs, top_bm, union,        \* locals of the last gather iteration
    features, labels, ce_pairs, ce_scores, \* train_ranker
    all_feats, all_cands, qmap, cepairs, ces, preds, \* evaluate
    train_src, eval_src, \* loop variables <<qi, idx>> under which each row was gathered
    scorer_raised,       \* cross_encoder.predict raised
    ranked, corr, rr, precision1, mrr,
    ce_calls     \* invocations of cross_encoder.predict in the running function

inputs == <<queries, tie_order>>
retrievalVars == <<bm_scores, idxs, top_bm, union>>
trainVars == <<features, labels, ce_pairs, ce_scores, train_src>>
evalVars == <<all_feats, all_cands, qmap, cepairs, ces, eval_src>>
metricVars == <<preds, ranked, corr, rr, precision1, mrr>>

vars == <<queries, RANKER_FILE, tie_order, pc, need_train, ranker, qi,
          bm_scores, idxs, top_bm, union, features, labels, ce_pairs, ce_scores,
          all_feats, all_cands, qmap, cepairs, ces, preds, train_src, eval_src,
          scorer_raised, ranked, corr, rr, precision1, mrr, ce_calls>>

(***************************************************************************)
(* Bounds of the model.  TOP_K, BM25_K and SNIPPET_WORDS are 10, 50 and    *)
(* 500 in the source (lines 19, 20, 23); they are scaled down here,        *)
(* keeping TOP_K < BM25_K < number of documents.                           *)
(***************************************************************************)
TOP_K == 2
BM25_K == 3
SNIPPET_WORDS == 2
MaxQueries == 2
MaxScore == 2
SigmoidSat == 3

\* expected_dim of the main block
expected_dim == 8

\* the unfilled slot of a feature vector (a filled slot holds a rational <<n, d>>)
None == <<>>

(***************************************************************************)
(* Python built-ins used by the program                                    *)
(***************************************************************************)
Range(s) == {s[i] : i \in DOMAIN s}

Min2(a, b) == IF a <= b THEN a ELSE b

\* s[:n]
Take(s, n) == SubSeq(s, 1, Min2(n, Len(s)))

\* s[::-1]
Reverse(s) == [i \in 1..Len(s) |-> s[Len(s) + 1 - i]]

LowerChar(c) ==
    CASE c = "A" -> "a"
      [] c = "B" -> "b"
      [] c = "C" -> "c"
      [] OTHER -> c

\* str.lower()
Lower(s) == [i \in 1..Len(s) |-> LowerChar(s[i])]

IsSpace(c) == c = " "

\* str.split(): maximal runs of non-whitespace characters, in order
RECURSIVE SplitFrom(_, _, _, _)
SplitFrom(s, i, cur, acc) ==
    IF i > Len(s)
      THEN IF cur = <<>> THEN acc ELSE Append(acc, cur)
      ELSE IF IsSpace(s[i])
             THEN SplitFrom(s, i + 1, <<>>, IF cur = <<>> THEN acc ELSE Append(acc, cur))
             ELSE SplitFrom(s, i + 1, Append(cur, s[i]), acc)

Split(s) == SplitFrom(s, 1, <<>>, <<>>)

\* ' '.join(words)
RECURSIVE Join(_)
Join(words) ==
    IF words = <<>> THEN <<>>
    ELSE IF Len(words) = 1 THEN words[1]
    ELSE words[1] \o <<" ">> \o Join(Tail(words))

\* sum(pred(x) for x in s): the number of positions of s that satisfy pred
CountIn(s, set) == Cardinality({i \in DOMAIN s : s[i] \in set})

\* list.index(x): zero-based position of the first occurrence
IndexOf(s, x) == (CHOOSE i \in DOMAIN s : s[i] = x /\ \A j \in 1..(i - 1) : s[j] # x) - 1

\* list(dict.fromkeys(s)): first occurrences, in order
RECURSIVE DictFromKeys(_)
DictFromKeys(s) ==
    IF s = <<>> THEN <<>>
    ELSE LET init == DictFromKeys(SubSeq(s, 1, Len(s) - 1))
             x == s[Len(s)]
         IN  IF x \in Range(init) THEN init ELSE Append(init, x)

(***************************************************************************)
(* Exact rationals standing for Python floats                              *)
(***************************************************************************)
Abs(n) == IF n < 0 THEN -n ELSE n

RECURSIVE Gcd(_, _)
Gcd(a, b) == IF b = 0 THEN a ELSE Gcd(b, a % b)

Rat(n, d) ==
    LET g == Gcd(Abs(n), d)
    IN  IF n = 0 THEN <<0, 1>> ELSE <<n \div g, d \div g>>

\* float(n)
Float(n) == <<n, 1>>

RAdd(a, b) == Rat(a[1] * b[2] + b[1] * a[2], a[2] * b[2])
RMul(a, b) == Rat(a[1] * b[1], a[2] * b[2])
RDiv(a, n) == Rat(a[1], a[2] * n)
RLess(a, b) == a[1] * b[2] < b[1] * a[2]
RLeq(a, b) == a[1] * b[2] <= b[1] * a[2]
IsNumber(v) == Len(v) = 2

(***************************************************************************)
(* Document store: one parsed corpus (what load_documents returns).        *)
(* Document ids are zero-based, as in the program.                         *)
(***************************************************************************)
titles ==
    << <<"A">>, <<"B">>, <<"a", " ", "B">>, <<"C">> >>

texts ==
    << <<"a", " ", "b", " ", "c">>,
       <<"b", " ", " ", "b">>,
       <<"c">>,
       <<"A", " ", "a">> >>

categories ==
    << << <<"x">>, <<"y">> >>,
       << <<"y">>, <<"x">>, <<"y">> >>,
       << >>,
       << <<"y">> >> >>

headers ==
    << << <<"a", " ", "c">> >>,
       << >>,
       << <<"b">>, <<"a", " ", "b">> >>,
       << <<"c">> >> >>

NumDocs == Len(titles)
DocIds == 0..(NumDocs - 1)

\* seq[idx] for a zero-based, non-negative idx
At(seq, idx) == seq[idx + 1]

(***************************************************************************)
(* Lexical index.  tokenized is built as in get_bm25; the Okapi weighting  *)
(* of the rank_bm25 library is outside the repository and is stood in for  *)
(* by the summed term frequency of the query tokens: like the library it   *)
(* adds one term per query token to an all-zero array, so an empty token   *)
(* list scores every document 0.                                           *)
(***************************************************************************)
tokenized == [d \in 1..NumDocs |-> Split(Lower(texts[d]))]

RECURSIVE SumTf(_, _)
SumTf(toks, doc) ==
    IF toks = <<>> THEN 0
    ELSE CountIn(doc, {toks[1]}) + SumTf(Tail(toks), doc)

GetScores(clue_tokens) == [d \in 1..NumDocs |-> SumTf(clue_tokens, tokenized[d])]

(***************************************************************************)
(* np.argsort(scores): ids by ascending score.  The default kind          *)
(* (quicksort) is not stable, so the order of equal scores is whatever the *)
(* build produces: tie_order, a permutation of the ids, fixes it.          *)
(***************************************************************************)
TiePos(d) == CHOOSE i \in 1..NumDocs : tie_order[i] = d

SortKey(scores, d) == At(scores, d) * NumDocs + TiePos(d)

ArgSort(scores) ==
    [i \in 1..NumDocs |->
        CHOOSE d \in DocIds :
            Cardinality({e \in DocIds : SortKey(scores, e) < SortKey(scores, d)}) = i - 1]

\* a top-k that forgets the reversal and keeps the lowest scores
TopBMAscending(scores) == Take(ArgSort(scores), BM25_K)

\* np.argsort(bm_scores)[::-1][:BM25_K]
TopBM(scores) == Take(Reverse(ArgSort(scores)), BM25_K)

\* a fusion that concatenates without removing repeated ids
FusionNoDedup(dense, lexical) == Take(dense \o lexical, TOP_K + BM25_K)

\* list(dict.fromkeys(list(idxs[0]) + top_bm.tolist()))[:TOP_K+BM25_K]
Fusion(dense, lexical) == Take(DictFromKeys(dense \o lexical), TOP_K + BM25_K)

(***************************************************************************)
(* Dense index.  The sentence encoder and the HNSW index are outside the   *)
(* repository: Encode is a fixed stand-in for dense_model.encode, and      *)
(* Search returns the k nearest documents exactly (nearest first, equal    *)
(* similarity by ascending id).                                            *)
(***************************************************************************)
embeddings == << <<1, 0>>, <<0, 1>>, <<-1, 0>>, <<1, 0>> >>

Encode(text) ==
    LET toks == Split(text)
    IN  IF <<"c">> \in Range(toks) \/ <<"C">> \in Range(toks) THEN <<-2, 0>>
        ELSE IF toks # <<>> /\ toks[1] = <<"x", ".">> THEN <<3, 0>>
        ELSE IF toks # <<>> /\ toks[1] = <<"y", ".">> THEN <<0, 2>>
        ELSE <<0, -1>>

\* faiss.normalize_L2, for the axis-aligned vectors Encode produces
NormalizeL2(v) ==
    LET norm == Abs(v[1]) + Abs(v[2])
    IN  <<v[1] \div norm, v[2] \div norm>>

\* np.dot
Dot(u, v) == u[1] * v[1] + u[2] * v[2]

SearchKey(q_emb, d) == (2 - Dot(q_emb, At(embeddings, d))) * NumDocs + d

\* index.search(q_emb, k)[1][0]
Search(q_emb, k) ==
    Take([i \in 1..NumDocs |->
            CHOOSE d \in DocIds :
                Cardinality({e \in DocIds : SearchKey(q_emb, e) < SearchKey(q_emb, d)}) = i - 1],
         k)

(***************************************************************************)
(* Feature extraction: the body of the per-candidate loop, identical in    *)
(* train_ranker and evaluate.  A query is <<qcat, clue, expected>>.        *)
(***************************************************************************)
\* f"{qcat}. {clue}"
FullQuery(q) == q[1] \o <<".", " ">> \o q[2]

ClueTokens(q) == Split(Lower(q[2]))
AnsTokens(q) == Split(Lower(q[3]))
QEmb(q) == NormalizeL2(Encode(FullQuery(q)))

TitleTok(idx) == Split(Lower(At(titles, idx)))

\* 1.0 if qcat in categories[idx] else 0.0
Catv(q, idx) == IF q[1] \in Range(At(categories, idx)) THEN Float(1) ELSE Float(0)

\* a reciprocal rank taken from the last occurrence of the category
CdvLastOccurrence(q, idx) ==
    LET cats == At(categories, idx)
    IN  IF q[1] \in Range(cats)
          THEN Rat(1, CHOOSE i \in DOMAIN cats : cats[i] = q[1] /\ \A j \in DOMAIN cats : cats[j] = q[1] => j <= i)
          ELSE Float(0)

\* 1.0/(categories[idx].index(qcat)+1) if qcat in categories[idx] else 0.0
Cdv(q, idx) ==
    IF q[1] \in Range(At(categories, idx))
      THEN Rat(1, IndexOf(At(categories, idx), q[1]) + 1)
      ELSE Float(0)

\* sum(t in title_tok for t in clue_tokens)
Tov(q, idx) == CountIn(ClueTokens(q), Range(TitleTok(idx)))

\* sum(t in hdr.split() for hdr in headers[idx] for t in clue_tokens)
RECURSIVE SumHdr(_, _)
SumHdr(hdrs, toks) ==
    IF hdrs = <<>> THEN 0
    ELSE CountIn(toks, Range(Split(hdrs[1]))) + SumHdr(Tail(hdrs), toks)

Hov(q, idx) == SumHdr(At(headers, idx), ClueTokens(q))

\* sum(t in title_tok for t in ans_tokens)
Aov(q, idx) == CountIn(AnsTokens(q), Range(TitleTok(idx)))

\* [bmv, dnv, None, catv, float(tov), float(hov), float(aov), cdv]
FeatureRow(q, idx, scores) ==
    << Float(At(scores, idx)),
       Float(Dot(QEmb(q), At(embeddings, idx))),
       None,
       Catv(q, idx),
       Float(Tov(q, idx)),
       Float(Hov(q, idx)),
       Float(Aov(q, idx)),
       Cdv(q, idx) >>

\* ' '.join(texts[idx].split()[:SNIPPET_WORDS])
Snippet(idx) == Join(Take(Split(At(texts, idx)), SNIPPET_WORDS))

CEPair(q, idx) == <<FullQuery(q), Snippet(idx)>>

\* 1 if titles[idx].lower()==expected.lower() else 0
Label(q, idx) == IF Lower(At(titles, idx)) = Lower(q[3]) THEN 1 ELSE 0

(***************************************************************************)
(* Relevance scorer.  The cross-encoder is outside the repository;         *)
(* Relevance is a fixed stand-in for its score of one pair, and predict    *)
(* returns one score per pair in input order.                              *)
(***************************************************************************)
Relevance(pair) ==
    CountIn(Split(Lower(pair[2])), Range(Split(Lower(pair[1])))) - 1

CrossEncoderPredict(pairs) == [i \in 1..Len(pairs) |-> Relevance(pairs[i])]

\* a fill that walks the scores from the wrong end
FillScoresReversed(feats, scores) ==
    [i \in 1..Len(feats) |->
        IF i <= Len(scores)
          THEN [feats[i] EXCEPT ![3] = Float(scores[Len(scores) + 1 - i])]
          ELSE feats[i]]

\* for i, sc in enumerate(ce_scores): features[i][2]=float(sc)
FillScores(feats, scores) ==
    [i \in 1..Len(feats) |->
        IF i <= Len(scores)
          THEN [feats[i] EXCEPT ![3] = Float(scores[i])]
          ELSE feats[i]]

(***************************************************************************)
(* Ranker.  A fitted LogisticRegression is [coef_, intercept_]; the        *)
(* optimiser is outside the repository, so fit yields one of a few         *)
(* coefficient vectors whose width is the number of columns of X.          *)
(***************************************************************************)
NoRanker == [unbound |-> TRUE]
UnfittedRanker == [max_iter |-> 1000]

HasCoef(r) == "coef_" \in DOMAIN r

\* ranker.coef_.shape[1]
Width(r) == Len(r.coef_)

CoefZero(n) == [i \in 1..n |-> 0]
CoefCE(n) == [i \in 1..n |-> IF i = 3 THEN 1 ELSE 0]
CoefMixed(n) == [i \in 1..n |-> IF i = 1 THEN -1 ELSE IF i = 7 THEN 1 ELSE IF i = 8 THEN 2 ELSE 0]

Fitted(coef) == [coef_ |-> coef, intercept_ |-> 0]

\* sklearn refuses to fit one class
TwoClasses(y) == Cardinality(Range(y)) >= 2

\* LogisticRegression(max_iter=1000).fit(X, y), for non-empty X
FitResults(X, y) ==
    {Fitted(CoefCE(Len(X[1]))), Fitted(CoefMixed(Len(X[1])))}

RECURSIVE LinearSum(_, _, _)
LinearSum(coef, feat, i) ==
    IF i > Len(coef) THEN Float(0)
    ELSE RAdd(RMul(Float(coef[i]), feat[i]), LinearSum(coef, feat, i + 1))

\* The logistic function is increasing and, in floating point, constant
\* beyond a saturation point: order-preserving up to +/- SigmoidSat.
Sigmoid(x) ==
    IF RLess(Float(SigmoidSat), x) THEN Float(SigmoidSat)
    ELSE IF RLess(x, Float(-SigmoidSat)) THEN Float(-SigmoidSat)
    ELSE x

\* ranker.predict_proba([feat])[0][1]
PredictProba(r, feat) == Sigmoid(RAdd(LinearSum(r.coef_, feat, 1), Float(r.intercept_)))

(***************************************************************************)
(* Ranking and metrics of evaluate                                         *)
(***************************************************************************)
\* an insertion that puts x ahead of elements of equal key (not stable)
RECURSIVE InsertDescUnstable(_, _)
InsertDescUnstable(sorted, x) ==
    IF sorted = <<>> THEN <<x>>
    ELSE IF RLeq(sorted[1][2], x[2]) THEN <<x>> \o sorted
    ELSE <<sorted[1]>> \o InsertDescUnstable(Tail(sorted), x)

\* position at which x enters a list already sorted by descending key:
\* after every element whose key is not smaller (stable)
RECURSIVE InsertDesc(_, _)
InsertDesc(sorted, x) ==
    IF sorted = <<>> THEN <<x>>
    ELSE IF RLess(sorted[1][2], x[2]) THEN <<x>> \o sorted
    ELSE <<sorted[1]>> \o InsertDesc(Tail(sorted), x)

\* sorted(pairs, key=lambda x:x[1], reverse=True)
RECURSIVE SortedDesc(_)
SortedDesc(pairs) ==
    IF pairs = <<>> THEN <<>>
    ELSE InsertDesc(SortedDesc(SubSeq(pairs, 1, Len(pairs) - 1)), pairs[Len(pairs)])

\* [c for c,_ in sorted(preds[i],key=lambda x:x[1],reverse=True)][:TOP_K]
Ranked(pairs) ==
    LET srt == SortedDesc(pairs)
    IN  Take([k \in 1..Len(srt) |-> srt[k][1]], TOP_K)

TitleMatches(ttl, exp) == Lower(ttl) = Lower(exp)

\* a rank loop that counts positions from zero (enumerate without start=1)
ReciprocalRankOffByOne(rk, exp) ==
    LET hits == {j \in 1..Len(rk) : TitleMatches(rk[j], exp)}
    IN  IF hits = {} THEN Float(0)
        ELSE Rat(1, (CHOOSE j \in hits : \A k \in hits : j <= k) + 1)

\* the loop of lines 181-183: r=1/j for the first matching rank j, else 0
ReciprocalRank(rk, exp) ==
    LET hits == {j \in 1..Len(rk) : TitleMatches(rk[j], exp)}
    IN  IF hits = {} THEN Float(0)
        ELSE Rat(1, CHOOSE j \in hits : \A k \in hits : j <= k)

(***************************************************************************)
(* Inputs                                                                  *)
(***************************************************************************)
\* Queries as load_questions yields them (category lowercased); the clue
\* also ranges over the empty and the all-blank string.
QuerySet ==
    { << <<"x">>, <<"a", " ", "b">>, <<"A">> >>,
      << <<"x">>, <<"a", " ", "b">>, <<"B">> >>,
      << <<"y">>, << >>, <<"a">> >>,
      << <<"y">>, <<" ">>, <<"C">> >>,
      << <<"z">>, <<"C", " ", "b">>, <<"A", " ", "b">> >> }

SeqsUpTo(S, n) == UNION {[1..k -> S] : k \in 1..n}

QueryLists == SeqsUpTo(QuerySet, MaxQueries)

\* every arrangement of the ids
TieOrders == {p \in [1..NumDocs -> DocIds] : Range(p) = DocIds}

\* the arrangements tried in whole runs: a stable sort, its reverse, a mixed one
RunTieOrders ==
    { [i \in 1..NumDocs |-> i - 1],
      [i \in 1..NumDocs |-> NumDocs - i],
      [i \in 1..NumDocs |-> IF 2 * i <= NumDocs THEN 2 * i - 1 ELSE 2 * (i - (NumDocs \div 2)) - 2] }

\* What RANKER_FILE may hold when the run starts: nothing, an object
\* without coef_, or a fitted ranker of width 7, 8 or 9.
ArtifactStates ==
    { <<>>, <<UnfittedRanker>>,
      <<Fitted(CoefCE(expected_dim - 1))>>,
      <<Fitted(CoefZero(expected_dim))>>,
      <<Fitted(CoefMixed(expected_dim))>>,
      <<Fitted(CoefCE(expected_dim + 1))>> }

Idle ==
    /\ need_train = TRUE
    /\ ranker = NoRanker
    /\ qi = 0
    /\ top_bm = <<>> /\ union = <<>>
    /\ features = <<>> /\ labels = <<>> /\ ce_pairs = <<>> /\ ce_scores = <<>>
    /\ all_feats = <<>> /\ all_cands = <<>> /\ qmap = <<>> /\ cepairs = <<>> /\ ces = <<>>
    /\ train_src = <<>> /\ eval_src = <<>>
    /\ scorer_raised = FALSE
    /\ ranked = <<>> /\ corr = 0 /\ rr = Float(0)
    /\ precision1 = None /\ mrr = None
    /\ ce_calls = 0

\* The state in which the main block starts
Init ==
    /\ queries \in QueryLists
    /\ RANKER_FILE \in ArtifactStates
    /\ tie_order \in RunTieOrders
    /\ pc = "main"
    /\ bm_scores = <<>> /\ idxs = <<>>
    /\ preds = <<>>
    /\ Idle

(***************************************************************************)
(* The main block                                                          *)
(***************************************************************************)
\* a load that uses whatever RANKER_FILE holds, without the width check
MainLoadNoCheck ==
    /\ pc = "main"
    /\ IF RANKER_FILE # <<>>
         THEN /\ ranker' = RANKER_FILE[1]
              /\ need_train' = FALSE
         ELSE /\ ranker' = ranker
              /\ need_train' = TRUE
    /\ pc' = IF need_train' THEN "train_gather" ELSE "eval_gather"
    /\ UNCHANGED <<inputs, retrievalVars, trainVars, evalVars, metricVars, RANKER_FILE,
                   qi, scorer_raised, ce_calls>>

\* lines 199-211: load the persisted ranker and decide whether to train
MainLoad ==
    /\ pc = "main"
    /\ IF RANKER_FILE # <<>>
         THEN /\ ranker' = RANKER_FILE[1]
              /\ need_train' = ~(HasCoef(RANKER_FILE[1]) /\ Width(RANKER_FILE[1]) = expected_dim)
         ELSE /\ ranker' = ranker
              /\ need_train' = TRUE
    /\ pc' = IF need_train' THEN "train_gather" ELSE "eval_gather"
    /\ UNCHANGED <<inputs, retrievalVars, trainVars, evalVars, metricVars, RANKER_FILE,
                   qi, scorer_raised, ce_calls>>

\* Rows of one query over its fused candidates
Rows(q, cands, scores) == [k \in 1..Len(cands) |-> FeatureRow(q, cands[k], scores)]
Pairs(q, cands) == [k \in 1..Len(cands) |-> CEPair(q, cands[k])]

\* lines 110-118 / 152-159: the retrieval locals of one query
Retrieval(q) ==
    /\ bm_scores' = GetScores(ClueTokens(q))
    /\ idxs' = Search(QEmb(q), TOP_K)
    /\ top_bm' = TopBM(bm_scores')
    /\ union' = Fusion(idxs', top_bm')

\* lines 109-132: one iteration of train_ranker's query loop
TrainGather ==
    /\ pc = "train_gather"
    /\ qi < Len(queries)
    /\ LET q == queries[qi + 1]
       IN  /\ Retrieval(q)
           /\ features' = features \o Rows(q, union', bm_scores')
           /\ ce_pairs' = ce_pairs \o Pairs(q, union')
           /\ labels' = labels \o [k \in 1..Len(union') |-> Label(q, union'[k])]
           /\ train_src' = train_src \o [k \in 1..Len(union') |-> <<qi, union'[k]>>]
    /\ qi' = qi + 1
    /\ pc' = IF qi' = Len(queries) THEN "train_score" ELSE "train_gather"
    /\ UNCHANGED <<inputs, evalVars, metricVars, RANKER_FILE, need_train, ranker,
                   ce_scores, scorer_raised, ce_calls>>

\* line 135: the batched cross-encoder call returns
TrainScore ==
    /\ pc = "train_score"
    /\ ce_scores' = CrossEncoderPredict(ce_pairs)
    /\ ce_calls' = ce_calls + 1
    /\ pc' = "train_fill"
    /\ UNCHANGED <<inputs, retrievalVars, evalVars, metricVars, RANKER_FILE,
                   need_train, ranker, qi, features, labels, ce_pairs, train_src,
                   scorer_raised>>

\* a handler that swallows the failure and scores every pair 0
TrainScoreFallbackZero ==
    /\ pc = "train_score"
    /\ ce_calls' = ce_calls + 1
    /\ scorer_raised' = TRUE
    /\ ce_scores' = [i \in 1..Len(ce_pairs) |-> 0]
    /\ pc' = "train_fill"
    /\ UNCHANGED <<inputs, retrievalVars, evalVars, metricVars, RANKER_FILE,
                   need_train, ranker, qi, features, labels, ce_pairs, train_src>>

\* line 135: the call raises; nothing catches it, the run ends
TrainScoreFail ==
    /\ pc = "train_score"
    /\ ce_calls' = ce_calls + 1
    /\ scorer_raised' = TRUE
    /\ pc' = "error"
    /\ UNCHANGED <<inputs, retrievalVars, trainVars, evalVars, metricVars, RANKER_FILE,
                   need_train, ranker, qi>>

\* line 137
TrainFill ==
    /\ pc = "train_fill"
    /\ features' = FillScores(features, ce_scores)
    /\ pc' = "train_fit"
    /\ UNCHANGED <<inputs, retrievalVars, evalVars, metricVars, RANKER_FILE,
                   need_train, ranker, qi, labels, ce_pairs, ce_scores, train_src,
                   scorer_raised, ce_calls>>

\* lines 138-145 and the return into line 216: fit, persist, hand to evaluate
TrainFit ==
    /\ pc = "train_fit"
    /\ TwoClasses(labels)
    /\ \E r \in FitResults(features, labels) :
          /\ ranker' = r
          /\ RANKER_FILE' = <<r>>
    /\ pc' = "eval_gather"
    /\ qi' = 0
    /\ ce_calls' = 0
    /\ UNCHANGED <<inputs, retrievalVars, trainVars, evalVars, metricVars, need_train,
                   scorer_raised>>

\* line 141 raises on labels of a single class; the run ends
TrainFitFail ==
    /\ pc = "train_fit"
    /\ ~TwoClasses(labels)
    /\ pc' = "error"
    /\ UNCHANGED <<inputs, retrievalVars, trainVars, evalVars, metricVars, RANKER_FILE,
                   need_train, ranker, qi, scorer_raised, ce_calls>>

(***************************************************************************)
(* evaluate                                                                *)
(***************************************************************************)
\* lines 151-170: one iteration of evaluate's query loop
EvalGather ==
    /\ pc = "eval_gather"
    /\ qi < Len(queries)
    /\ LET q == queries[qi + 1]
       IN  /\ Retrieval(q)
           /\ all_feats' = all_feats \o Rows(q, union', bm_scores')
           /\ cepairs' = cepairs \o Pairs(q, union')
           /\ all_cands' = all_cands \o [k \in 1..Len(union') |-> At(titles, union'[k])]
           /\ qmap' = qmap \o [k \in 1..Len(union') |-> qi]
           /\ eval_src' = eval_src \o [k \in 1..Len(union') |-> <<qi, union'[k]>>]
    /\ qi' = qi + 1
    /\ pc' = IF qi' = Len(queries) THEN "eval_score" ELSE "eval_gather"
    /\ UNCHANGED <<inputs, trainVars, metricVars, RANKER_FILE, need_train, ranker, ces,
                   scorer_raised, ce_calls>>

\* line 172: the batched cross-encoder call returns
EvalScore ==
    /\ pc = "eval_score"
    /\ ces' = CrossEncoderPredict(cepairs)
    /\ ce_calls' = ce_calls + 1
    /\ pc' = "eval_fill"
    /\ UNCHANGED <<inputs, retrievalVars, trainVars, metricVars, RANKER_FILE,
                   need_train, ranker, qi, all_feats, all_cands, qmap, cepairs,
                   eval_src, scorer_raised>>

\* line 172: the call raises; nothing catches it, the run ends
EvalScoreFail ==
    /\ pc = "eval_score"
    /\ ce_calls' = ce_calls + 1
    /\ scorer_raised' = TRUE
    /\ pc' = "error"
    /\ UNCHANGED <<inputs, retrievalVars, trainVars, evalVars, metricVars, RANKER_FILE,
                   need_train, ranker, qi>>

\* line 174
EvalFill ==
    /\ pc = "eval_fill"
    /\ all_feats' = FillScores(all_feats, ces)
    /\ pc' = "eval_predict"
    /\ UNCHANGED <<inputs, retrievalVars, trainVars, metricVars, RANKER_FILE,
                   need_train, ranker, qi, all_cands, qmap, cepairs, ces, eval_src,
                   scorer_raised, ce_calls>>

\* preds[i] (i zero-based): the rows of query i in gathering order
RECURSIVE PredsOf(_, _)
PredsOf(i, k) ==
    IF k > Len(qmap) THEN <<>>
    ELSE IF qmap[k] = i
           THEN <<<<all_cands[k], PredictProba(ranker, all_feats[k])>>>> \o PredsOf(i, k + 1)
           ELSE PredsOf(i, k + 1)

\* predict_proba accepts rows of the ranker's width only
Predictable == \A k \in 1..Len(all_feats) :
    /\ HasCoef(ranker)
    /\ Len(all_feats[k]) = Width(ranker)
    /\ \A f \in 1..Len(all_feats[k]) : IsNumber(all_feats[k][f])

\* lines 175-177: per-query (title, probability) lists
EvalPredict ==
    /\ pc = "eval_predict"
    /\ IF Predictable
         THEN /\ preds' = [i \in 1..Len(queries) |-> PredsOf(i - 1, 1)]
              /\ pc' = "eval_rank"
         ELSE /\ preds' = preds
              /\ pc' = "error"
    /\ qi' = 0
    /\ UNCHANGED <<inputs, retrievalVars, trainVars, evalVars, RANKER_FILE, need_train,
                   ranker, scorer_raised, ranked, corr, rr, precision1, mrr, ce_calls>>

\* lines 178-184: one iteration of the metric loop
EvalRank ==
    /\ pc = "eval_rank"
    /\ qi < Len(queries)
    /\ LET exp == queries[qi + 1][3]
           rk == Ranked(preds[qi + 1])
       IN  /\ ranked' = Append(ranked, rk)
           /\ corr' = IF rk # <<>> /\ TitleMatches(rk[1], exp) THEN corr + 1 ELSE corr
           /\ rr' = RAdd(rr, ReciprocalRank(rk, exp))
    /\ qi' = qi + 1
    /\ pc' = IF qi' = Len(queries) THEN "eval_report" ELSE "eval_rank"
    /\ UNCHANGED <<inputs, retrievalVars, trainVars, evalVars, RANKER_FILE, need_train,
                   ranker, preds, scorer_raised, precision1, mrr, ce_calls>>

\* lines 185-187: corr/tot and rr/tot are printed
EvalReport ==
    /\ pc = "eval_report"
    /\ LET tot == Len(queries)
       IN  /\ precision1' = RDiv(Float(corr), tot)
           /\ mrr' = RDiv(rr, tot)
    /\ pc' = "done"
    /\ UNCHANGED <<inputs, retrievalVars, trainVars, evalVars, RANKER_FILE, need_train,
                   ranker, qi, preds, scorer_raised, ranked, corr, rr, ce_calls>>

Next ==
    \/ MainLoad
    \/ TrainGather \/ TrainScore \/ TrainScoreFail \/ TrainFill \/ TrainFit \/ TrainFitFail
    \/ EvalGather \/ EvalScore \/ EvalScoreFail \/ EvalFill \/ EvalPredict
    \/ EvalRank \/ EvalReport

Spec == Init /\ [][Next]_vars

(***************************************************************************)
(* Retrieval on its own: lines 114 and 118 applied to any lexical score    *)
(* array and any dense hit list of TOP_K distinct ids.                     *)
(***************************************************************************)
ScoreArrays == [1..NumDocs -> 0..MaxScore]
DenseHitLists == {h \in [1..TOP_K -> DocIds] : \A i, j \in 1..TOP_K : h[i] = h[j] => i = j}

InitRetrieve ==
    /\ queries = <<>>
    /\ RANKER_FILE = <<>>
    /\ tie_order \in TieOrders
    /\ pc = "retrieve"
    /\ bm_scores \in ScoreArrays
    /\ idxs \in DenseHitLists
    /\ preds = <<>>
    /\ Idle

Retrieve ==
    /\ pc = "retrieve"
    /\ top_bm' = TopBM(bm_scores)
    /\ union' = Fusion(idxs, top_bm')
    /\ pc' = "retrieved"
    /\ UNCHANGED <<inputs, trainVars, evalVars, metricVars, RANKER_FILE, need_train,
                   ranker, qi, bm_scores, idxs, scorer_raised, ce_calls>>

SpecRetrieve == InitRetrieve /\ [][Retrieve]_vars

NoDuplicates(s) == \A i, j \in DOMAIN s : s[i] = s[j] => i = j

\* position of the first occurrence of x in s
FirstPos(s, x) == CHOOSE i \in DOMAIN s : s[i] = x /\ \A j \in 1..(i - 1) : s[j] # x

\* C1: the fused list holds no id twice, holds every id of either hit list
\* (the cap at TOP_K+BM25_K removes none), and orders the ids by their first
\* occurrence in dense hits followed by lexical hits.
C1_FusionDedupOrder ==
    pc = "retrieved" =>
        /\ NoDuplicates(union)
        /\ Range(union) = Range(idxs) \cup Range(top_bm)
        /\ \A i, j \in DOMAIN union :
              i < j => FirstPos(idxs \o top_bm, union[i]) < FirstPos(idxs \o top_bm, union[j])

C1_Witness ==
    /\ pc = "retrieved"
    /\ Range(idxs) \cap Range(top_bm) # {}
    /\ Range(top_bm) \ Range(idxs) # {}
    /\ Len(union) < Len(idxs) + Len(top_bm)

Score(d) == At(bm_scores, d)

\* C5 as stated: top_bm holds the BM25_K best-scoring ids, and of two documents
\* with equal score the smaller id comes first and is the one kept at the cut.
C5_TiesAscendingId ==
    pc = "retrieved" =>
        /\ \A i, j \in DOMAIN top_bm :
              i < j => \/ Score(top_bm[i]) > Score(top_bm[j])
                       \/ Score(top_bm[i]) = Score(top_bm[j]) /\ top_bm[i] < top_bm[j]
        /\ \A e \in Range(top_bm) : \A d \in DocIds \ Range(top_bm) :
              \/ Score(e) > Score(d)
              \/ Score(e) = Score(d) /\ e < d

\* C5 amended: top_bm holds min(BM25_K, number of documents) distinct ids in
\* non-increasing score order, and no document left out scores higher than one
\* kept; nothing is promised about the order of equal scores.
C5_TopKByScore ==
    pc = "retrieved" =>
        /\ Len(top_bm) = Min2(BM25_K, NumDocs)
        /\ NoDuplicates(top_bm)
        /\ \A i, j \in DOMAIN top_bm : i < j => Score(top_bm[i]) >= Score(top_bm[j])
        /\ \A e \in Range(top_bm) : \A d \in DocIds \ Range(top_bm) : Score(e) >= Score(d)

C5_Witness ==
    /\ pc = "retrieved"
    /\ \E e \in Range(top_bm) : \E d \in DocIds \ Range(top_bm) : Score(e) = Score(d)
    /\ \E i, j \in DOMAIN top_bm : i < j /\ Score(top_bm[i]) > Score(top_bm[j])

(***************************************************************************)
(* The metric loop on its own: lines 177-187 applied to any per-query      *)
(* lists of (title, probability) and any expected answers.                 *)
(***************************************************************************)
EvalTitles == { <<"A">>, <<"B">>, <<"C">> }
EvalAnswers == { <<"A">>, <<"a">>, <<"C">> }

EvalQueryLists == SeqsUpTo({<< <<"x">>, <<"a">>, e >> : e \in EvalAnswers}, MaxQueries)

\* orderings of distinct titles, the k-th with probability 1/(k+1)
PredLists ==
    UNION {{[k \in 1..n |-> <<t[k], Rat(1, k + 1)>>] :
              t \in {u \in [1..n -> EvalTitles] : \A i, j \in 1..n : u[i] = u[j] => i = j}} :
           n \in 0..Cardinality(EvalTitles)}

InitEval ==
    /\ queries \in EvalQueryLists
    /\ preds \in [1..Len(queries) -> PredLists]
    /\ RANKER_FILE = <<>>
    /\ tie_order = [i \in 1..NumDocs |-> i - 1]
    /\ pc = "eval_rank"
    /\ bm_scores = <<>> /\ idxs = <<>>
    /\ Idle

NextEval == EvalRank \/ EvalReport

SpecEval == InitEval /\ [][NextEval]_vars

\* whether the first title of a ranked list is the expected answer
TopCorrect(i) == ranked[i] # <<>> /\ Lower(ranked[i][1]) = Lower(queries[i][3])

\* numerator and denominator of 1/j for the smallest matching rank j (0/1 if none)
FirstMatch(i) ==
    IF \E j \in 1..Len(ranked[i]) : Lower(ranked[i][j]) = Lower(queries[i][3])
      THEN CHOOSE j \in 1..Len(ranked[i]) :
             /\ Lower(ranked[i][j]) = Lower(queries[i][3])
             /\ \A k \in 1..(j - 1) : Lower(ranked[i][k]) # Lower(queries[i][3])
      ELSE 0

RECURSIVE SumReciprocal(_)
SumReciprocal(n) ==
    IF n = 0 THEN <<0, 1>>
    ELSE LET s == SumReciprocal(n - 1)
             j == FirstMatch(n)
         IN  IF j = 0 THEN s ELSE Rat(s[1] * j + s[2], s[2] * j)

\* C3: Precision@1 is the share of queries whose ranked list starts with the
\* expected answer (case-insensitive), MRR the mean of 1/j over the first
\* matching rank j (0 if none); [[B,A,C],[A]] against [A,A] gives 1/2 and 3/4.
C3_Metrics ==
    pc = "done" =>
        /\ precision1 = Rat(Cardinality({i \in 1..Len(queries) : TopCorrect(i)}), Len(queries))
        /\ mrr = Rat(SumReciprocal(Len(queries))[1], SumReciprocal(Len(queries))[2] * Len(queries))
        /\ ( /\ Len(queries) = 2
             /\ queries[1][3] = <<"A">> /\ queries[2][3] = <<"A">>
             /\ [k \in 1..Len(preds[1]) |-> preds[1][k][1]] = << <<"B">>, <<"A">>, <<"C">> >>
             /\ [k \in 1..Len(preds[2]) |-> preds[2][k][1]] = << <<"A">> >> )
           => precision1 = <<1, 2>> /\ mrr = <<3, 4>>

C3_Witness ==
    /\ pc = "done"
    /\ Len(queries) = 2
    /\ queries[1][3] = <<"A">> /\ queries[2][3] = <<"A">>
    /\ [k \in 1..Len(preds[1]) |-> preds[1][k][1]] = << <<"B">>, <<"A">>, <<"C">> >>
    /\ [k \in 1..Len(preds[2]) |-> preds[2][k][1]] = << <<"A">> >>
    /\ precision1 = <<1, 2>>
    /\ mrr = <<3, 4>>

(***************************************************************************)
(* Properties of the whole run (Spec)                                      *)
(***************************************************************************)
TrainPhases == {"train_gather", "train_score", "train_fill", "train_fit"}
EvalPhases == {"eval_gather", "eval_score", "eval_fill", "eval_predict", "eval_rank",
               "eval_report", "done"}

\* the query and the document id a gathered row belongs to
SrcQuery(src) == queries[src[1] + 1]
SrcDoc(src) == src[2]

CategoryPositions(q, idx) ==
    {p \in DOMAIN At(categories, idx) : At(categories, idx)[p] = q[1]}

CategoryFieldsConsistent(row, q, idx) ==
    /\ row[4] \in {<<0, 1>>, <<1, 1>>}
    /\ row[4] = <<1, 1>> <=> RLess(<<0, 1>>, row[8])
    /\ IF CategoryPositions(q, idx) = {}
         THEN row[8] = <<0, 1>>
         ELSE \E p \in CategoryPositions(q, idx) :
                /\ \A r \in CategoryPositions(q, idx) : p <= r
                /\ row[8][1] = 1 /\ row[8][2] = 1 + (p - 1)

\* C2: in every feature vector of train_ranker and evaluate, category_match is
\* 1.0 exactly when category_rank_reciprocal is positive, and a present category
\* gives 1/(1+p) for the zero-based position p of its first occurrence.
C2_CategoryFeatures ==
    /\ \A k \in DOMAIN features :
          CategoryFieldsConsistent(features[k], SrcQuery(train_src[k]), SrcDoc(train_src[k]))
    /\ \A k \in DOMAIN all_feats :
          CategoryFieldsConsistent(all_feats[k], SrcQuery(eval_src[k]), SrcDoc(eval_src[k]))

C2_Witness ==
    /\ pc = "done"
    /\ \E k \in DOMAIN features : Cardinality(CategoryPositions(SrcQuery(train_src[k]), SrcDoc(train_src[k]))) = 2
    /\ \E k \in DOMAIN all_feats : all_feats[k][8] = <<1, 2>>
    /\ \E k \in DOMAIN all_feats : all_feats[k][4] = <<0, 1>> /\ At(categories, SrcDoc(eval_src[k])) = <<>>
    /\ \E k \in DOMAIN all_feats : Cardinality(CategoryPositions(SrcQuery(eval_src[k]), SrcDoc(eval_src[k]))) = 2

\* rows of query i (one-based) and the probability the ranker gives a row
OwnRows(i) == {k \in DOMAIN qmap : qmap[k] = i - 1}
Prob(k) == PredictProba(ranker, all_feats[k])

\* row a is ranked ahead of row b: higher probability, or equal and gathered earlier
Ahead(a, b) == RLess(Prob(b), Prob(a)) \/ (Prob(a) = Prob(b) /\ a < b)
RankOf(i, k) == Cardinality({a \in OwnRows(i) : Ahead(a, k)}) + 1

\* C4: every ranked list holds the query's own candidates by descending
\* probability, equal probabilities in fusion order, cut to TOP_K entries.
C4_StableRanking ==
    \A i \in DOMAIN ranked :
        /\ Len(ranked[i]) = Min2(TOP_K, Cardinality(OwnRows(i)))
        /\ \A k \in OwnRows(i) :
              RankOf(i, k) <= TOP_K => ranked[i][RankOf(i, k)] = all_cands[k]

C4_Witness ==
    /\ pc = "done"
    /\ Len(queries) = 2
    /\ \E k \in OwnRows(2) : \E l \in OwnRows(2) :
          k < l /\ Prob(k) = Prob(l) /\ all_cands[k] # all_cands[l] /\ RankOf(2, l) <= TOP_K
    /\ \E k \in OwnRows(1) : \E l \in OwnRows(1) : k < l /\ RLess(Prob(k), Prob(l))
    /\ Cardinality(OwnRows(1)) > TOP_K

Usable(r) == HasCoef(r) /\ Width(r) = expected_dim

AllFilled(rows) == \A k \in DOMAIN rows : \A f \in DOMAIN rows[k] : IsNumber(rows[k][f])

\* what the step out of the main block must do
LoadStep ==
    pc = "main" =>
        /\ pc' \in {"train_gather", "eval_gather"}
        /\ pc' = "train_gather" <=> (RANKER_FILE = <<>> \/ ~Usable(RANKER_FILE[1]))
        /\ pc' = "eval_gather" => ranker' = RANKER_FILE[1]
        /\ RANKER_FILE' = RANKER_FILE

\* training is entered from the main block only
TrainEntry == pc' \in TrainPhases => pc \in TrainPhases \cup {"main"}

\* evaluate never returns to training nor touches what training produced
EvalStep ==
    pc \in EvalPhases =>
        /\ pc' \in EvalPhases \cup {"error"}
        /\ UNCHANGED <<ranker, RANKER_FILE, features, labels>>

\* C6: the main block trains exactly when RANKER_FILE is absent or does not hold
\* a ranker of width 8, never ends in an error at the width check, finishes
\* training (fit and persist) before evaluate starts, hands evaluate a ranker of
\* width 8, and uses a persisted ranker of width 8 as loaded without rewriting
\* the file.
C6_LoadOrRetrain ==
    /\ [](pc \in EvalPhases => Usable(ranker) /\ RANKER_FILE = <<ranker>>)
    /\ [](pc \in EvalPhases /\ need_train => features # <<>> /\ AllFilled(features))
    /\ [](pc \in EvalPhases /\ ~need_train => features = <<>> /\ train_src = <<>>)
    /\ [](pc \in TrainPhases => need_train /\ all_feats = <<>>)
    /\ [][LoadStep]_vars
    /\ [][TrainEntry]_vars
    /\ [][EvalStep]_vars

C6_Witness ==
    /\ pc = "train_fit"
    /\ TwoClasses(labels)
    /\ RANKER_FILE # <<>>
    /\ HasCoef(RANKER_FILE[1])
    /\ Width(RANKER_FILE[1]) # expected_dim

SameCategoryAndClue(q, r) == q[1] = r[1] /\ q[2] = r[2]

\* C7: the expected answer is no input of the feature vectors evaluate hands to
\* the ranker: rows of the same document for queries with the same category and
\* clue are equal, whatever the expected answers.
C7_AnswerNotAFeature ==
    \A k, l \in DOMAIN all_feats :
        ( /\ SameCategoryAndClue(SrcQuery(eval_src[k]), SrcQuery(eval_src[l]))
          /\ SrcDoc(eval_src[k]) = SrcDoc(eval_src[l]) )
        => all_feats[k] = all_feats[l]

\* C8: once the relevance scorer has raised, the run has ended in an error: no
\* score stands in for the missing one, no ranker was fitted or persisted from
\* the unfilled features, and no metric is reported.
C8_ScorerFailureIsFatal ==
    scorer_raised =>
        /\ pc = "error"
        /\ precision1 = None /\ mrr = None /\ ranked = <<>> /\ preds = <<>>
        /\ IF eval_src = <<>>
             THEN /\ features # <<>>
                  /\ \A k \in DOMAIN features : features[k][3] = None
                  /\ ce_scores = <<>>
                  /\ ~Usable(ranker)
                  /\ RANKER_FILE \in {<<>>, <<ranker>>}
             ELSE /\ all_feats # <<>>
                  /\ \A k \in DOMAIN all_feats : all_feats[k][3] = None
                  /\ ces = <<>>

C8_Witness ==
    /\ scorer_raised
    /\ eval_src = <<>>
    /\ Len(queries) = 2
    /\ RANKER_FILE # <<>>

BlankClue(q) == \A i \in DOMAIN q[2] : q[2][i] = " "

OverlapsZero(row) == row[5] = <<0, 1>> /\ row[6] = <<0, 1>> /\ row[7] = <<0, 1>>

RowsComplete(rows, srcs) ==
    \A k \in DOMAIN rows :
        /\ Len(rows[k]) = 8
        /\ \A f \in 1..8 : IsNumber(rows[k][f])
        /\ rows[k][3] = Float(Relevance(<<FullQuery(SrcQuery(srcs[k])), Snippet(SrcDoc(srcs[k]))>>))

AllGathered(srcs) == {srcs[k][1] : k \in DOMAIN srcs} = 0..(Len(queries) - 1)

\* C10: each of train_ranker and evaluate calls the relevance scorer once, after
\* the rows of all queries are gathered; when fit or predict is reached every row
\* has 8 numeric fields and field 3 is the score of the row's own (full query,
\* snippet) pair.
C10_TwoPhaseExtraction ==
    /\ ce_calls \in {0, 1}
    /\ pc \in {"train_gather", "train_score", "eval_gather", "eval_score"} => ce_calls = 0
    /\ pc \in (TrainPhases \cup EvalPhases) \ {"train_gather", "train_score", "eval_gather", "eval_score"}
          => ce_calls = 1
    /\ pc \in {"train_score", "train_fill", "train_fit"}
          => AllGathered(train_src) /\ Len(ce_pairs) = Len(features)
    /\ pc \in {"eval_score", "eval_fill", "eval_predict"}
          => AllGathered(eval_src) /\ Len(cepairs) = Len(all_feats)
    /\ pc = "train_fit" => RowsComplete(features, train_src)
    /\ pc = "eval_predict" => RowsComplete(all_feats, eval_src)

C10_Witness ==
    /\ pc = "eval_predict"
    /\ Len(queries) = 2
    /\ need_train
    /\ \E k, l \in DOMAIN all_feats : all_feats[k][3] # all_feats[l][3]
    /\ \E k, l \in DOMAIN features : features[k][3] # features[l][3]

====
